---- MODULE Spec2Model ----
\* PhraseKit matching engine: token-stream encoding, byte-level automaton hits,
\* overlap resolution policies and the matcher facade (ext/phrasekit/src).
EXTENDS Integers, Sequences, FiniteSets, TLC

VARIABLES
    fs,        \* the artifact files the next load reads (automaton blob, payloads, manifest)
    matcher,   \* the loaded Matcher, or None
    now,       \* SystemTime::now() as a tick counter
    ret,       \* what the last call returned to its caller, or None once the caller dropped it
    hits,      \* the raw automaton hits of the last match_tokens call (byte offsets)
    vocab,     \* the token ids of the vocabulary the callers encode their text with
    input,     \* the builder's input files (phrase lines and build config), or None
    build,     \* what the last builder run reported (its counters), or None
    unresolved, \* the Vec<Match> handed to resolve_overlaps directly
    resolved,  \* what that resolve_overlaps call returned, or None
    overflow_checks, \* whether the build panics on integer overflow (debug) or wraps (release)
    calls,     \* per host thread: the wrapper call it is in and how far it got
    lock,      \* the RwLock around the wrapper's matcher slot
    stream,    \* the bytes of the payload stream that write_to appends to and the readers read
    written,   \* the payloads written to the stream through write_to
    given,     \* the arguments of a direct call of a library function, or None
    loop,      \* resolve_salience_max in progress: its matches, i and result, or None
    spans      \* the spans phrasekit_tag wrote for a document, with the call they belong to, or None

vars == <<fs, matcher, now, ret, hits, vocab, input, build, unresolved, resolved,
          overflow_checks, calls, lock, stream, written, given, loop, spans>>

\* Option<T>: None, or Some(x)
None == <<>>
Some(x) == <<x>>

\* ---------------------------------------------------------------- bounds

MaxTokens == 3     \* longest token_ids vector a caller passes
MaxCap == 2        \* largest `max` a caller passes
MaxClock == 1      \* number of successful loads the clock is followed for
MaxLines == 2      \* most lines in the builder's phrase file
MaxMatches == 3    \* longest match list handed to resolve_overlaps directly
MaxThreads == 2    \* host threads sharing one wrapper
MaxLoads == 2      \* successful loads the shared wrapper is followed for
MaxEnd == 2        \* greatest token offset of the matches resolve_salience_max is followed on

\* ---------------------------------------------------------------- u32 values

\* A u32 is kept as two 16-bit halves <<hi, lo>> so that all 32 bits are represented.
U32(hi, lo) == <<hi, lo>>
Tok(v) == U32(0, v)

U32Zero == U32(0, 0)

U32Max == U32(65535, 65535)              \* u32::MAX

\* u32 addition of 1 as a build without overflow checks computes it
wrapping_add_one(w) ==
    IF w[2] < 65535 THEN U32(w[1], w[2] + 1)
    ELSE IF w[1] < 65535 THEN U32(w[1] + 1, 0)
    ELSE U32Zero

\* RwLock::new: no reader, no writer, nobody queued
Unlocked == [readers |-> {}, writer |-> None, waiting |-> {}]

\* u32::to_le_bytes
to_le_bytes(w) == <<w[2] % 256, w[2] \div 256, w[1] % 256, w[1] \div 256>>

\* u32::from_le_bytes
from_le_bytes(b) == U32(b[3] + 256 * b[4], b[1] + 256 * b[2])

\* ---------------------------------------------------------------- encoder

\* the builder's encode_tokens: the buffer its loop leaves, token i's four
\* bytes followed by the separator's four bytes, given position by position
\* (phrases of several hundred tokens are encoded without recursion)
encode_tokens(tokens, separator) ==
    [k \in 1..(8 * Len(tokens)) |->
        IF (k - 1) % 8 < 4
        THEN to_le_bytes(tokens[((k - 1) \div 8) + 1])[((k - 1) % 8) + 1]
        ELSE to_le_bytes(separator)[((k - 1) % 8) - 3]]

\* ---------------------------------------------------------------- payload

\* Payload::new; count is a u32, given here as a number below 65536
Payload(phrase_id, salience, count, n) ==
    [phrase_id |-> phrase_id, salience |-> salience, count |-> Tok(count), n |-> n]

\* ln(x) in units of 1e-4, for the values of count + 1 the model uses.
LnE4(x) ==
    CASE x = 1 -> 0
      [] x = 2 -> 6931
      [] x = 3 -> 10986
      [] x = 51 -> 39318
      [] x = 100 -> 46052
      [] x = 101 -> 46151
      [] x = 151 -> 50173
      [] x = 201 -> 53033

\* f32 negative infinity: ln(0.0), and its product with a positive salience
NegInfinity == -2000000000

\* self.count + 1 overflows u32: a panic where overflow checks are on
ScoreOverflows(p) == p.count = U32Max

\* Payload::salience_score: salience * ln(count + 1); salience is kept in
\* tenths and is positive. Without overflow checks count + 1 wraps to 0.
salience_score(p) ==
    LET c == wrapping_add_one(p.count)
    IN IF c = U32Zero THEN NegInfinity ELSE p.salience * LnE4(c[2])

\* an encoding loop that appends one separator byte per token, as the
\* capacity hint token_ids.len() * 5 would have it
RECURSIVE extend_bytes_short(_, _, _, _)
extend_bytes_short(bytes, token_ids, i, separator) ==
    IF i > Len(token_ids) THEN bytes
    ELSE extend_bytes_short(bytes \o to_le_bytes(token_ids[i]) \o <<to_le_bytes(separator)[1]>>,
                            token_ids, i + 1, separator)

\* the encoding loop inside Matcher::match_tokens (matcher.rs lines 78-82):
\* for each token id, in order, its four bytes and the separator's four bytes
\* are appended to `bytes`
RECURSIVE extend_bytes(_, _, _, _)
extend_bytes(bytes, token_ids, i, separator) ==
    IF i > Len(token_ids) THEN bytes
    ELSE extend_bytes(bytes \o to_le_bytes(token_ids[i]) \o to_le_bytes(separator),
                      token_ids, i + 1, separator)

\* ---------------------------------------------------------------- automaton

\* DoubleArrayAhoCorasick::new: pattern i gets value i (0-based); the automaton
\* is the list of its byte patterns.
DaacNew(patterns) == patterns

PatternEndsAt(bytes, p, e) ==
    /\ Len(p) <= e
    /\ \A k \in 1..Len(p) : bytes[e - Len(p) + k] = p[k]

\* the patterns (1-based indices) that end at byte position e, longest first
RECURSIVE OutputsAt(_, _, _)
OutputsAt(automaton, bytes_e, cand) ==
    IF cand = {} THEN <<>>
    ELSE LET i == CHOOSE c \in cand : \A d \in cand :
                     \/ Len(automaton[c]) > Len(automaton[d])
                     \/ (Len(automaton[c]) = Len(automaton[d]) /\ c <= d)
         IN <<i>> \o OutputsAt(automaton, bytes_e, cand \ {i})

Hit(value, start, end) == [value |-> value, start |-> start, end |-> end]

\* find_overlapping_iter: every occurrence of every pattern, by end position
RECURSIVE FindFrom(_, _, _)
FindFrom(automaton, bytes, e) ==
    IF e > Len(bytes) THEN <<>>
    ELSE LET cand == {i \in DOMAIN automaton : PatternEndsAt(bytes, automaton[i], e)}
             outs == OutputsAt(automaton, e, cand)
         IN [k \in 1..Len(outs) |->
                Hit(outs[k] - 1, e - Len(automaton[outs[k]]), e)]
            \o FindFrom(automaton, bytes, e + 1)

find_overlapping_iter(automaton, bytes) == FindFrom(automaton, bytes, 1)

\* ---------------------------------------------------------------- policy

Policies == {"leftmost_longest", "leftmost_first", "salience_max"}

Match(start, end, pattern_id, payload) ==
    [start |-> start, end |-> end, pattern_id |-> pattern_id, payload |-> payload]

\* Match::len
MatchLen(m) == m.end - m.start

\* Match::overlaps
overlaps(a, b) == ~(a.end <= b.start \/ b.end <= a.start)

\* an insertion that puts a match before the matches with its start
RECURSIVE InsertByStartBefore(_, _)
InsertByStartBefore(sorted, m) ==
    IF sorted = <<>> THEN <<m>>
    ELSE IF Head(sorted).start < m.start
         THEN <<Head(sorted)>> \o InsertByStartBefore(Tail(sorted), m)
         ELSE <<m>> \o sorted

\* Vec::sort_by_key(|m| m.start): a stable sort
RECURSIVE InsertByStart(_, _)
InsertByStart(sorted, m) ==
    IF sorted = <<>> THEN <<m>>
    ELSE IF Head(sorted).start <= m.start
         THEN <<Head(sorted)>> \o InsertByStart(Tail(sorted), m)
         ELSE <<m>> \o sorted

RECURSIVE SortFrom(_, _, _)
SortFrom(matches, k, acc) ==
    IF k > Len(matches) THEN acc
    ELSE SortFrom(matches, k + 1, InsertByStart(acc, matches[k]))

sort_by_key_start(matches) == SortFrom(matches, 1, <<>>)

\* Iterator::max_by_key / max_by over matches[lo..hi]: the LAST maximal element
\* (keys[i] is the key of matches[i])
MaxByLast(matches, lo, hi, keys) ==
    LET best == CHOOSE i \in lo..hi :
            /\ \A j \in lo..hi : keys[j] <= keys[i]
            /\ \A j \in (i + 1)..hi : keys[j] < keys[i]
    IN matches[best]

\* Iterator::position: the first index >= from whose flag holds, or Len + 1
FirstFrom(flags, from) ==
    IF \E j \in from..Len(flags) : flags[j]
    THEN CHOOSE j \in from..Len(flags) :
            flags[j] /\ \A k \in from..(j - 1) : ~flags[k]
    ELSE Len(flags) + 1

RECURSIVE LeftmostLongestLoop(_, _, _, _)
LeftmostLongestLoop(matches, group_start, current_end, result) ==
    IF group_start > Len(matches) THEN result
    ELSE IF matches[group_start].start < current_end
    THEN LeftmostLongestLoop(matches, group_start + 1, current_end, result)
    ELSE LET NotSameStart == [k \in DOMAIN matches |->
                                 matches[k].start # matches[group_start].start]
             group_end == FirstFrom(NotSameStart, group_start)
             longest == MaxByLast(matches, group_start, group_end - 1,
                                  [k \in DOMAIN matches |-> MatchLen(matches[k])])
         IN LeftmostLongestLoop(matches, group_start + 1, longest.end,
                                Append(result, longest))

resolve_leftmost_longest(matches) == LeftmostLongestLoop(matches, 1, 0, <<>>)

RECURSIVE LeftmostFirstLoop(_, _, _, _)
LeftmostFirstLoop(matches, k, current_end, result) ==
    IF k > Len(matches) THEN result
    ELSE IF matches[k].start >= current_end
    THEN LeftmostFirstLoop(matches, k + 1, matches[k].end, Append(result, matches[k]))
    ELSE LeftmostFirstLoop(matches, k + 1, current_end, result)

\* a leftmost_first that never consults the cursor
resolve_leftmost_first_no_cursor(matches) == matches

resolve_leftmost_first(matches) == LeftmostFirstLoop(matches, 1, 0, <<>>)

MatchScore(m) == salience_score(m.payload)

\* a salience_max that starts the next component right after the previous one
RECURSIVE SalienceMaxLoopByComponent(_, _, _)
SalienceMaxLoopByComponent(matches, i, result) ==
    IF i > Len(matches) THEN result
    ELSE LET NotOverlapsFirst == [k \in DOMAIN matches |->
                                     ~overlaps(matches[k], matches[i])]
             j == FirstFrom(NotOverlapsFirst, i + 1)
             best == MaxByLast(matches, i, j - 1,
                               [k \in DOMAIN matches |-> MatchScore(matches[k])])
         IN SalienceMaxLoopByComponent(matches, j, Append(result, best))

RECURSIVE SalienceMaxLoop(_, _, _)
SalienceMaxLoop(matches, i, result) ==
    IF i > Len(matches) THEN result
    ELSE LET NotOverlapsFirst == [k \in DOMAIN matches |->
                                     ~overlaps(matches[k], matches[i])]
             j == FirstFrom(NotOverlapsFirst, i + 1)
             best == MaxByLast(matches, i, j - 1,
                               [k \in DOMAIN matches |-> MatchScore(matches[k])])
             StartsAfterBest == [k \in DOMAIN matches |-> matches[k].start >= best.end]
         IN SalienceMaxLoop(matches, FirstFrom(StartsAfterBest, i),
                            Append(result, best))

resolve_salience_max(matches) == SalienceMaxLoop(matches, 1, <<>>)

\* whether resolve_salience_max evaluates salience_score on an overflowing
\* count: max_by compares (and scores) the members of every component of two
\* or more matches, and of no other
RECURSIVE SalienceMaxOverflows(_, _)
SalienceMaxOverflows(matches, i) ==
    IF i > Len(matches) THEN FALSE
    ELSE LET NotOverlapsFirst == [k \in DOMAIN matches |->
                                     ~overlaps(matches[k], matches[i])]
             j == FirstFrom(NotOverlapsFirst, i + 1)
             best == MaxByLast(matches, i, j - 1,
                               [k \in DOMAIN matches |-> MatchScore(matches[k])])
             StartsAfterBest == [k \in DOMAIN matches |-> matches[k].start >= best.end]
         IN \/ j - i >= 2 /\ \E k \in i..(j - 1) : ScoreOverflows(matches[k].payload)
            \/ SalienceMaxOverflows(matches, FirstFrom(StartsAfterBest, i))

resolve_overlaps(matches, policy) ==
    IF matches = <<>> THEN matches
    ELSE LET sorted == sort_by_key_start(matches)
         IN CASE policy = "leftmost_longest" -> resolve_leftmost_longest(sorted)
              [] policy = "leftmost_first" -> resolve_leftmost_first(sorted)
              [] policy = "salience_max" -> resolve_salience_max(sorted)

\* a from_str that falls back to a default policy
from_str_lenient(s) == IF s \in Policies THEN Some(s) ELSE Some("leftmost_longest")

\* MatchPolicy::from_str
from_str(s) == IF s \in Policies THEN Some(s) ELSE None

\* ---------------------------------------------------------------- matcher

\* a truncate that keeps the last max elements
truncate_back(v, max) == IF Len(v) > max THEN SubSeq(v, Len(v) - max + 1, Len(v)) ELSE v

\* Vec::truncate
truncate(v, max) == IF Len(v) > max THEN SubSeq(v, 1, max) ELSE v

\* the raw hits of a match_tokens call (matcher.rs lines 77-86)
RawHits(m, token_ids) ==
    IF token_ids = <<>> THEN <<>>
    ELSE find_overlapping_iter(m.automaton,
                               extend_bytes(<<>>, token_ids, 1, m.manifest.separator_id))

\* the filter_map of matcher.rs lines 87-96: hits without a payload are dropped
RECURSIVE FilterMapHits(_, _)
FilterMapHits(payloads, raw) ==
    IF raw = <<>> THEN <<>>
    ELSE LET h == Head(raw)
             pattern_id == h.value
             start_token == h.start \div 8
             end_token == (h.end + 7) \div 8
         IN (IF pattern_id + 1 \in DOMAIN payloads
             THEN <<Match(start_token, end_token, pattern_id, payloads[pattern_id + 1])>>
             ELSE <<>>)
            \o FilterMapHits(payloads, Tail(raw))

\* matcher.rs lines 84-104: payload join, overlap resolution, truncation
ResolveHits(m, raw, policy, max) ==
    truncate(resolve_overlaps(FilterMapHits(m.payloads, raw), policy), max)

\* whether resolving the raw hits hits an integer overflow
ResolveOverflows(m, raw, policy) ==
    /\ policy = "salience_max"
    /\ SalienceMaxOverflows(sort_by_key_start(FilterMapHits(m.payloads, raw)), 1)

\* Matcher::match_tokens
match_tokens(m, token_ids, policy, max) ==
    IF token_ids = <<>> THEN <<>>
    ELSE ResolveHits(m, RawHits(m, token_ids), policy, max)

\* Matcher::load: the manifest is read first (separator_id == 0 is rejected),
\* then the automaton blob, then the payloads, whose count must equal
\* manifest.num_patterns.
ManifestLoadOk(manifest) == manifest.separator_id # U32Zero

\* a load that checks neither the separator nor the payload count
MatcherLoadUnchecked(files) == TRUE

MatcherLoadOk(files) ==
    /\ ManifestLoadOk(files.manifest)
    /\ Len(files.payloads) = files.manifest.num_patterns

MatcherLoad(files, time) ==
    [automaton |-> files.automaton,
     payloads |-> files.payloads,
     manifest |-> files.manifest,
     loaded_at |-> time]

\* ---------------------------------------------------------------- artifacts

FixtureSeparator == U32(65535, 65534)     \* 4294967294

Manifest(version, tokenizer, num_patterns, separator_id) ==
    [version |-> version, tokenizer |-> tokenizer,
     num_patterns |-> num_patterns, separator_id |-> separator_id]

\* artifact files written from token-id patterns the way fixture_builder does:
\* automaton over the encoded patterns, payloads in pattern order, manifest
Artifacts(patterns, payloads, num_patterns, separator, vocabulary) ==
    [automaton |-> DaacNew([i \in DOMAIN patterns |-> encode_tokens(patterns[i], separator)]),
     payloads |-> payloads,
     manifest |-> Manifest("test-v1", "test-tokenizer", num_patterns, separator),
     vocab |-> vocabulary]

\* fixture_builder: P0 = [100,101], P1 = [200,101], P2 = [100,101,102]
FixturePatterns ==
    << <<Tok(100), Tok(101)>>, <<Tok(200), Tok(101)>>, <<Tok(100), Tok(101), Tok(102)>> >>

FixturePayloads ==
    << Payload(100, 25, 150, 2), Payload(200, 20, 100, 2), Payload(300, 30, 200, 3) >>

FixtureVocab == {Tok(100), Tok(101), Tok(102), Tok(200)}

FixtureFiles ==
    Artifacts(FixturePatterns, FixturePayloads, 3, FixtureSeparator, FixtureVocab)

\* further artifact sets in the fixture's vocabulary: pattern lists and, for
\* every pattern, a (salience, count) pair
GenPatternLists ==
    { << <<Tok(100), Tok(101)>>, <<Tok(101), Tok(102)>>, <<Tok(102)>> >>,
      << <<Tok(100), Tok(101)>>, <<Tok(100), Tok(101), Tok(102)>> >>,
      << <<Tok(100)>>, <<Tok(100), Tok(101)>>, <<Tok(101)>> >> }

GenVocab == {Tok(100), Tok(101), Tok(102)}

SalienceCounts == { <<20, 1>>, <<10, 100>> }

GenFiles ==
    { Artifacts(pl,
                [i \in DOMAIN pl |-> Payload(100 * i, sc[i][1], sc[i][2], Len(pl[i]))],
                Len(pl), FixtureSeparator, GenVocab) :
        <<pl, sc>> \in UNION { {pl} \X [DOMAIN pl -> SalienceCounts] : pl \in GenPatternLists } }

\* a separator whose four bytes are equal (0x65656565); no pattern contains it
RepeatSeparator == U32(25957, 25957)

RepeatSepFiles ==
    Artifacts(<< <<Tok(100), Tok(101)>>, <<U32(25856, 0)>> >>,
              << Payload(100, 10, 1, 2), Payload(200, 10, 1, 1) >>,
              2, RepeatSeparator, {Tok(100), Tok(101)})

\* an automaton with more patterns than the payload table has records
OrphanFiles ==
    Artifacts(<< <<Tok(100)>>, <<Tok(101)>> >>, << Payload(100, 10, 1, 1) >>,
              1, FixtureSeparator, {Tok(100), Tok(101)})

\* a payload whose count is u32::MAX
OverflowFiles ==
    Artifacts(<< <<Tok(100)>>, <<Tok(100), Tok(101)>> >>,
              << [Payload(100, 10, 1, 1) EXCEPT !.count = U32Max], Payload(200, 10, 1, 2) >>,
              2, FixtureSeparator, {Tok(100), Tok(101)})

\* files Matcher::load rejects
SepZeroFiles ==
    Artifacts(<< <<Tok(100)>> >>, << Payload(100, 10, 1, 1) >>, 1, U32Zero, {Tok(100)})

CountMismatchFiles ==
    Artifacts(<< <<Tok(100)>>, <<Tok(101)>> >>,
              << Payload(100, 10, 1, 1), Payload(200, 10, 1, 1) >>,
              3, FixtureSeparator, {Tok(100), Tok(101)})

ArtifactChoices ==
    {FixtureFiles, RepeatSepFiles, OrphanFiles, OverflowFiles, SepZeroFiles,
     CountMismatchFiles}
        \cup GenFiles

\* ---------------------------------------------------------------- builder

\* a line of the phrase file: a PhraseInput, or a line serde_json rejects
PhraseInput(tokens, phrase_id, salience, count) ==
    [tokens |-> tokens, phrase_id |-> phrase_id, salience |-> salience, count |-> count]

GarbageLine == [garbage |-> TRUE]

IsGarbage(line) == "garbage" \in DOMAIN line

BuildConfig(separator_id, min_count, salience_threshold) ==
    [version |-> "v1", tokenizer |-> "tok", separator_id |-> separator_id,
     min_count |-> min_count, salience_threshold |-> salience_threshold]

\* str::to_lowercase on the token strings of the model
to_lowercase(t) == IF t = "A" THEN "a" ELSE t

\* the order of Vec<String>::sort on the (lowercased) token strings of the model
StrRank(t) == CASE t = "" -> 0 [] t = "a" -> 1 [] t = "b" -> 2

BuildStats(total_input, filtered_low_count, filtered_low_salience, duplicate_phrase_ids, invalid_tokens, built) ==
    [total_input |-> total_input, filtered_low_count |-> filtered_low_count,
     filtered_low_salience |-> filtered_low_salience,
     duplicate_phrase_ids |-> duplicate_phrase_ids,
     invalid_tokens |-> invalid_tokens, built |-> built]

EmptyTokens(tokens) == Cardinality({i \in DOMAIN tokens : tokens[i] = ""})

\* load_and_validate_phrases: the loop over the lines; st holds phrases,
\* seen_ids, unique_tokens and stats
RECURSIVE ValidateLoop(_, _, _, _)
ValidateLoop(lines, k, config, st) ==
    IF k > Len(lines) THEN st
    ELSE LET line == lines[k]
             s1 == [st.stats EXCEPT !.total_input = @ + 1]
             counted == [st EXCEPT !.stats = s1]
         IN IF IsGarbage(line)
            THEN ValidateLoop(lines, k + 1, config, counted)
            ELSE IF config.min_count # None /\ line.count < config.min_count[1]
            THEN ValidateLoop(lines, k + 1, config,
                    [counted EXCEPT !.stats.filtered_low_count = @ + 1])
            ELSE IF config.salience_threshold # None
                    /\ line.salience < config.salience_threshold[1]
            THEN ValidateLoop(lines, k + 1, config,
                    [counted EXCEPT !.stats.filtered_low_salience = @ + 1])
            ELSE IF line.tokens = <<>>
            THEN ValidateLoop(lines, k + 1, config,
                    [counted EXCEPT !.stats.invalid_tokens = @ + 1])
            ELSE LET \* the inner `continue` only skips to the next token
                     s2 == [counted EXCEPT
                              !.stats.invalid_tokens = @ + EmptyTokens(line.tokens)]
                 IN IF line.phrase_id \in s2.seen_ids
                    THEN ValidateLoop(lines, k + 1, config,
                            [s2 EXCEPT !.stats.duplicate_phrase_ids = @ + 1])
                    ELSE ValidateLoop(lines, k + 1, config,
                            [s2 EXCEPT
                               !.seen_ids = @ \cup {line.phrase_id},
                               !.unique_tokens = @ \cup
                                   {to_lowercase(line.tokens[i]) : i \in DOMAIN line.tokens},
                               !.phrases = Append(@, line),
                               !.stats.built = @ + 1])

load_and_validate_phrases(lines, config) ==
    ValidateLoop(lines, 1, config,
                 [phrases |-> <<>>, seen_ids |-> {}, unique_tokens |-> {},
                  stats |-> BuildStats(0, 0, 0, 0, 0, 0)])

\* build_vocabulary: the sorted unique tokens get the ids 1, 2, ...
build_vocabulary(unique_tokens) ==
    [t \in unique_tokens |->
        1 + Cardinality({u \in unique_tokens : StrRank(u) < StrRank(t)})]

\* main, lines 119-132: text tokens to ids, length as u8
ProcessedPhrase(phrase, vocabulary) ==
    [token_ids |-> [i \in DOMAIN phrase.tokens |->
                       IF to_lowercase(phrase.tokens[i]) \in DOMAIN vocabulary
                       THEN Tok(vocabulary[to_lowercase(phrase.tokens[i])])
                       ELSE Tok(0)],
     phrase_id |-> phrase.phrase_id,
     salience |-> phrase.salience,
     count |-> phrase.count,
     length |-> Len(phrase.tokens) % 256]

\* DoubleArrayAhoCorasick::new fails on an empty pattern list, an empty
\* pattern and on two equal patterns
DaacNewOk(patterns) ==
    /\ patterns # <<>>
    /\ \A i \in DOMAIN patterns : patterns[i] # <<>>
    /\ \A i, j \in DOMAIN patterns : i # j => patterns[i] # patterns[j]

\* a main that writes the payloads sorted by phrase_id
BuildArtifactsSorted(lines, config) ==
    LET loaded == load_and_validate_phrases(lines, config)
        vocabulary == build_vocabulary(loaded.unique_tokens)
        phrases == [i \in DOMAIN loaded.phrases |->
                       ProcessedPhrase(loaded.phrases[i], vocabulary)]
        patterns == [i \in DOMAIN phrases |->
                       encode_tokens(phrases[i].token_ids, config.separator_id)]
        sorted == SortSeq(phrases, LAMBDA x, y : x.phrase_id < y.phrase_id)
    IN IF loaded.phrases = <<>> \/ ~DaacNewOk(patterns) THEN None
       ELSE Some([automaton |-> DaacNew(patterns),
                  payloads |-> [i \in DOMAIN sorted |->
                                   Payload(sorted[i].phrase_id, sorted[i].salience,
                                           sorted[i].count, sorted[i].length)],
                  manifest |-> Manifest(config.version, config.tokenizer,
                                        Len(phrases), config.separator_id),
                  vocab |-> {Tok(vocabulary[t]) : t \in DOMAIN vocabulary}])

\* main: the artifact files one builder run writes, None when it fails before
\* writing any
BuildArtifacts(lines, config) ==
    LET loaded == load_and_validate_phrases(lines, config)
        vocabulary == build_vocabulary(loaded.unique_tokens)
        phrases == [i \in DOMAIN loaded.phrases |->
                       ProcessedPhrase(loaded.phrases[i], vocabulary)]
        patterns == [i \in DOMAIN phrases |->
                       encode_tokens(phrases[i].token_ids, config.separator_id)]
    IN IF loaded.phrases = <<>> \/ ~DaacNewOk(patterns) THEN None
       ELSE Some([automaton |-> DaacNew(patterns),
                  payloads |-> [i \in DOMAIN phrases |->
                                   Payload(phrases[i].phrase_id, phrases[i].salience,
                                           phrases[i].count, phrases[i].length)],
                  manifest |-> Manifest(config.version, config.tokenizer,
                                        Len(phrases), config.separator_id),
                  vocab |-> {Tok(vocabulary[t]) : t \in DOMAIN vocabulary}])

TokenChoices == { <<>>, <<"a">>, <<"A", "b">>, <<"">> }

LineChoices ==
    { PhraseInput(t, 1, 20, 100) : t \in TokenChoices }
        \cup { PhraseInput(t, 2, 10, 1) : t \in TokenChoices }
        \cup { GarbageLine }

ConfigChoices ==
    { BuildConfig(FixtureSeparator, None, None),
      BuildConfig(Tok(1), None, None),
      BuildConfig(U32Zero, None, None),
      BuildConfig(FixtureSeparator, Some(50), Some(15)) }

BuildInputs ==
    { [lines |-> l, config |-> c] :
        l \in UNION { [1..n -> LineChoices] : n \in 0..MaxLines }, c \in ConfigChoices }

\* ---------------------------------------------------------------- callers

\* the token-id vectors a caller with vocabulary ids can pass
TokenVectors(ids) == UNION { [1..n -> ids] : n \in 0..MaxTokens }

CallArgs(token_ids, policy, max) ==
    [token_ids |-> token_ids, policy |-> policy, max |-> max]

LoadReturn(ok) == [op |-> "load", ok |-> ok]

MatchReturn(args, value) == [op |-> "match_tokens", args |-> args, value |-> value]

\* the call unwound with a panic instead of returning
PanicReturn(args) == [op |-> "panic", args |-> args]

\* ---------------------------------------------------------------- actions

Init ==
    /\ spans = None
    /\ loop = None
    /\ fs \in {Some(a) : a \in ArtifactChoices}
    /\ input = None
    /\ build = None
    /\ matcher = None
    /\ now = 0
    /\ ret = None
    /\ hits = <<>>
    /\ vocab = {}
    /\ unresolved = <<>>
    /\ resolved = None
    /\ overflow_checks \in BOOLEAN
    /\ calls = <<>>
    /\ lock = Unlocked
    /\ stream = <<>>
    /\ written = <<>>
    /\ given = None

\* MatcherWrapper::load over Matcher::load: a failed load returns the error and
\* leaves the slot alone, a successful one installs the new matcher
Load ==
    /\ ret = None
    /\ now < MaxClock
    /\ IF fs # None /\ MatcherLoadOk(fs[1])
       THEN /\ matcher' = Some(MatcherLoad(fs[1], now + 1))
            /\ now' = now + 1
            /\ vocab' = fs[1].vocab
            /\ ret' = Some(LoadReturn(TRUE))
       ELSE /\ ret' = Some(LoadReturn(FALSE))
            /\ UNCHANGED <<matcher, now, vocab>>
    /\ UNCHANGED <<fs, hits, input, build, unresolved, resolved, overflow_checks, calls, lock,
                 stream, written, given, loop, spans>>

\* a match_tokens that also stamps the matcher it ran on
MatchTokensCallStamping(token_ids, policy, max) ==
    /\ hits' = RawHits(matcher[1], token_ids)
    /\ ret' = Some(MatchReturn(CallArgs(token_ids, policy, max),
                               IF token_ids = <<>> THEN <<>>
                               ELSE ResolveHits(matcher[1], hits', policy, max)))
    /\ matcher' = Some([matcher[1] EXCEPT !.loaded_at = 0])
    /\ UNCHANGED <<fs, now, vocab, input, build, unresolved, resolved, overflow_checks, calls, lock,
                 stream, written, given, loop, spans>>

\* Matcher::match_tokens on the loaded matcher
MatchTokensCall(token_ids, policy, max) ==
    /\ hits' = RawHits(matcher[1], token_ids)
    /\ ret' = IF overflow_checks /\ token_ids # <<>>
                  /\ ResolveOverflows(matcher[1], hits', policy)
              THEN Some(PanicReturn(CallArgs(token_ids, policy, max)))
              ELSE Some(MatchReturn(CallArgs(token_ids, policy, max),
                                    IF token_ids = <<>> THEN <<>>
                                    ELSE ResolveHits(matcher[1], hits', policy, max)))
    /\ UNCHANGED <<fs, matcher, now, vocab, input, build, unresolved, resolved, overflow_checks, calls, lock,
                 stream, written, given, loop, spans>>

\* a caller that holds no result issues a query
MatchTokens ==
    /\ matcher # None
    /\ ret = None
    /\ \E token_ids \in TokenVectors(vocab), policy \in Policies, max \in 0..MaxCap :
          MatchTokensCall(token_ids, policy, max)

\* a caller that holds the result of a query issues the same query again
MatchTokensAgain ==
    /\ matcher # None
    /\ ret # None
    /\ ret[1].op = "match_tokens"
    /\ MatchTokensCall(ret[1].args.token_ids, ret[1].args.policy, ret[1].args.max)

\* the caller consumes the returned value
Release ==
    /\ ret # None
    /\ ret' = None
    /\ hits' = <<>>
    /\ UNCHANGED <<fs, matcher, now, vocab, input, build, unresolved, resolved, overflow_checks, calls, lock,
                 stream, written, given, loop, spans>>

\* phrasekit_build main: one run over the input files; a failed run writes nothing
BuilderMain ==
    /\ input # None
    /\ ret = None
    /\ LET out == BuildArtifacts(input[1].lines, input[1].config)
       IN /\ fs' = IF out = None THEN fs ELSE out
          /\ build' = Some([ok |-> out # None,
                            stats |-> load_and_validate_phrases(input[1].lines,
                                                                input[1].config).stats])
    /\ UNCHANGED <<matcher, now, ret, hits, vocab, input, unresolved, resolved, overflow_checks, calls, lock,
                 stream, written, given, loop, spans>>

Next ==
    \/ Load
    \/ MatchTokens
    \/ MatchTokensAgain
    \/ Release

Spec == Init /\ [][Next]_vars

\* the builder's deployment: no artifact files until the builder wrote them
InitBuild ==
    /\ spans = None
    /\ loop = None
    /\ fs = None
    /\ input \in {Some(i) : i \in BuildInputs}
    /\ build = None
    /\ matcher = None
    /\ now = 0
    /\ ret = None
    /\ hits = <<>>
    /\ vocab = {}
    /\ unresolved = <<>>
    /\ resolved = None
    /\ overflow_checks \in BOOLEAN
    /\ calls = <<>>
    /\ lock = Unlocked
    /\ stream = <<>>
    /\ written = <<>>
    /\ given = None

NextBuild ==
    \/ BuilderMain
    \/ Load
    \/ MatchTokens
    \/ MatchTokensAgain
    \/ Release

SpecBuild == InitBuild /\ [][NextBuild]_vars

\* a phrase of 256 tokens
LongPhraseLine == PhraseInput([i \in 1..256 |-> "a"], 1, 20, 100)

\* the inputs of a builder run taken by itself: those above, and phrase files
\* with the long phrase
BuilderInputs ==
    BuildInputs
        \cup { [lines |-> <<LongPhraseLine>> \o l, config |-> BuildConfig(FixtureSeparator, None, None)] :
                  l \in UNION { [1..n -> LineChoices] : n \in 0..(MaxLines - 1) } }

InitBuilder ==
    /\ spans = None
    /\ loop = None
    /\ fs = None
    /\ input \in {Some(i) : i \in BuilderInputs}
    /\ build = None
    /\ matcher = None
    /\ now = 0
    /\ ret = None
    /\ hits = <<>>
    /\ vocab = {}
    /\ unresolved = <<>>
    /\ resolved = None
    /\ overflow_checks \in BOOLEAN
    /\ calls = <<>>
    /\ lock = Unlocked
    /\ stream = <<>>
    /\ written = <<>>
    /\ given = None

NextBuilder == BuilderMain

\* phrasekit_build run on its input files, nothing else
SpecBuilder == InitBuilder /\ [][NextBuilder]_vars

\* resolve_overlaps as a function of its own: match lists over the token
\* offsets of a MaxTokens-token input, two patterns with their payloads
PatternPayload(pattern_id, n) ==
    IF pattern_id = 0 THEN Payload(100, 20, 1, n) ELSE Payload(200, 10, 100, n)

MatchChoices ==
    { Match(s, e, pid, PatternPayload(pid, e - s)) :
        <<s, e, pid>> \in { t \in (0..MaxTokens) \X (0..MaxTokens) \X {0, 1} : t[1] < t[2] } }

InitResolve ==
    /\ spans = None
    /\ loop = None
    /\ unresolved \in UNION { [1..n -> MatchChoices] : n \in 0..MaxMatches }
    /\ resolved = None
    /\ fs = None
    /\ input = None
    /\ build = None
    /\ matcher = None
    /\ now = 0
    /\ ret = None
    /\ hits = <<>>
    /\ vocab = {}
    /\ overflow_checks = FALSE
    /\ calls = <<>>
    /\ lock = Unlocked
    /\ stream = <<>>
    /\ written = <<>>
    /\ given = None

ResolveOverlaps(policy) ==
    /\ resolved = None
    /\ resolved' = Some([policy |-> policy, value |-> resolve_overlaps(unresolved, policy)])
    /\ UNCHANGED <<fs, matcher, now, ret, hits, vocab, input, build, unresolved, overflow_checks, calls, lock,
                 stream, written, given, loop, spans>>

NextResolve == \E policy \in Policies : ResolveOverlaps(policy)

SpecResolve == InitResolve /\ [][NextResolve]_vars

\* ---------------------------------------------------------------- host binding

\* the wrapper shared by host threads (lib.rs): every call of a thread is a
\* sequence of steps, and the matcher slot sits behind a parking_lot RwLock
Threads == 1..MaxThreads

\* a second loadable artifact set, with another automaton and other payloads
AltFiles ==
    Artifacts(<< <<Tok(100)>>, <<Tok(100), Tok(101)>> >>,
              << Payload(700, 10, 1, 1), Payload(800, 20, 1, 2) >>,
              2, FixtureSeparator, {Tok(100), Tok(101)})

\* what a load is pointed at: the files, and whether reading them fails
\* (a missing file) or the manifest is no JSON
LoadArg(io, files) == [io |-> io, files |-> files]

HostLoadArgs ==
    { LoadArg("ok", FixtureFiles), LoadArg("ok", AltFiles),
      LoadArg("ok", SepZeroFiles), LoadArg("ok", CountMismatchFiles),
      LoadArg("io_error", FixtureFiles), LoadArg("json_error", AltFiles) }

HostPolicyStrings == Policies \cup {"longest"}

HostQueries == { <<Tok(100), Tok(101)>> }

HostMatchArgs ==
    { CallArgs(q, policy, MaxCap) : q \in HostQueries, policy \in HostPolicyStrings }

\* Matcher::load with the `?` on every read: Some(matcher) or None for Err
HostMatcherLoad(arg, time) ==
    IF arg.io = "ok" /\ MatcherLoadOk(arg.files)
    THEN Some(MatcherLoad(arg.files, time))
    ELSE None

\* the artifact sets of HostLoadArgs that Matcher::load accepts
HostLoadable == { a.files : a \in { x \in HostLoadArgs : HostMatcherLoad(x, 0) # None } }

\* RawHits tabulated over the automata and manifests a host load can install
\* and the host's queries
HostRawHits ==
    [a \in { f.automaton : f \in HostLoadable }, mf \in { f.manifest : f \in HostLoadable } |->
        [q \in HostQueries |-> RawHits([automaton |-> a, manifest |-> mf], q)]]

HostHitLists ==
    { HostRawHits[a, mf][q] :
        a \in { f.automaton : f \in HostLoadable },
        mf \in { f.manifest : f \in HostLoadable }, q \in HostQueries }

\* ResolveHits and ResolveOverflows tabulated over the payload tables a host
\* load can install and the raw hit lists above
HostResolveHits ==
    [p \in { f.payloads : f \in HostLoadable }, h \in HostHitLists |->
        [policy \in Policies |->
            [max \in 0..MaxCap |-> ResolveHits([payloads |-> p], h, policy, max)]]]

HostResolveOverflows ==
    [p \in { f.payloads : f \in HostLoadable }, h \in HostHitLists |->
        [policy \in Policies |-> ResolveOverflows([payloads |-> p], h, policy)]]

\* magnus results: Ok(value), or an exception of a class with a message
Ok(value) == [kind |-> "ok", value |-> value]
Err(class, msg) == [kind |-> class, value |-> msg]

\* Stats::from_matcher, the fields that depend on the matcher
StatsOf(m) ==
    [version |-> m.manifest.version, loaded_at |-> m.loaded_at,
     num_patterns |-> Len(m.payloads)]

IdleCall ==
    [pc |-> "idle", op |-> "none", args |-> <<>>, loaded |-> None, hits |-> <<>>,
     ret |-> None, during |-> {}]

\* a thread enters a call; `during` collects the slot contents while it runs
StartCall(op, args, pc) ==
    [pc |-> pc, op |-> op, args |-> args, loaded |-> None, hits |-> <<>>,
     ret |-> None, during |-> {matcher}]

\* the call returns r
Return(c, r) == [c EXCEPT !.pc = "done", !.ret = Some(r)]

\* RwLock::read succeeds when no writer holds the lock and none is queued
CanRead(lk) == lk.writer = None /\ lk.waiting = {}

\* a write lock granted while readers still hold theirs
CanWriteOverReaders(lk) == lk.writer = None

\* RwLock::write succeeds when nobody holds the lock
CanWrite(lk) == lk.readers = {} /\ lk.writer = None

InitHost ==
    /\ spans = None
    /\ loop = None
    /\ calls = [t \in Threads |-> IdleCall]
    /\ lock = Unlocked
    /\ stream = <<>>
    /\ written = <<>>
    /\ given = None
    /\ matcher = None
    /\ now = 0
    /\ overflow_checks = FALSE
    /\ fs = None
    /\ input = None
    /\ build = None
    /\ ret = None
    /\ hits = <<>>
    /\ vocab = {}
    /\ unresolved = <<>>
    /\ resolved = None

HostUnchanged == UNCHANGED <<fs, ret, hits, vocab, input, build, unresolved, resolved,
                             overflow_checks, stream, written, given, loop, spans>>

\* the host calls match_tokens, stats or healthcheck on thread t
CallReader(t) ==
    /\ calls[t].pc = "idle"
    /\ \E c \in { StartCall("match_tokens", a, "read") : a \in HostMatchArgs }
              \cup { StartCall("stats", <<>>, "read"),
                     StartCall("healthcheck", <<>>, "read") } :
          calls' = [calls EXCEPT ![t] = c]
    /\ UNCHANGED <<matcher, now, lock>>
    /\ HostUnchanged

\* the host calls load on thread t
CallLoad(t) ==
    /\ calls[t].pc = "idle"
    /\ now + Cardinality({u \in Threads : calls[u].pc = "open"}) < MaxLoads
    /\ \E a \in HostLoadArgs :
          calls' = [calls EXCEPT ![t] = StartCall("load", a, "open")]
    /\ UNCHANGED <<matcher, now, lock>>
    /\ HostUnchanged

\* self.matcher.read()
ReadLock(t) ==
    /\ calls[t].pc = "read"
    /\ CanRead(lock)
    /\ lock' = [lock EXCEPT !.readers = @ \cup {t}]
    /\ calls' = [calls EXCEPT ![t].pc = "locked"]
    /\ UNCHANGED <<matcher, now>>
    /\ HostUnchanged

\* MatcherWrapper::match_tokens under the read guard, up to the automaton
\* scan: the not-loaded and the policy error return here and drop the guard
MatchScan(t) ==
    /\ calls[t].pc = "locked"
    /\ calls[t].op = "match_tokens"
    /\ IF matcher = None
       THEN /\ calls' = [calls EXCEPT ![t] =
                            Return(@, Err("runtime_error", "Matcher not loaded"))]
            /\ lock' = [lock EXCEPT !.readers = @ \ {t}]
       ELSE IF from_str(calls[t].args.policy) = None
       THEN /\ calls' = [calls EXCEPT ![t] = Return(@, Err("arg_error", "Invalid policy"))]
            /\ lock' = [lock EXCEPT !.readers = @ \ {t}]
       ELSE /\ calls' = [calls EXCEPT ![t].pc = "scanned",
                                      ![t].hits = HostRawHits[matcher[1].automaton,
                                                              matcher[1].manifest]
                                                             [calls[t].args.token_ids]]
            /\ lock' = lock
    /\ UNCHANGED <<matcher, now>>
    /\ HostUnchanged

\* the rest of Matcher::match_tokens (payload lookup, resolution, truncation),
\* the conversion of the matches and the drop of the read guard
MatchResolve(t) ==
    /\ calls[t].pc = "scanned"
    /\ LET a == calls[t].args
           policy == from_str(a.policy)[1]
           p == matcher[1].payloads
       IN calls' = [calls EXCEPT ![t] =
             Return(@, IF overflow_checks /\ HostResolveOverflows[p, calls[t].hits][policy]
                       THEN Err("panic", "attempt to add with overflow")
                       ELSE Ok(HostResolveHits[p, calls[t].hits][policy][a.max]))]
    /\ lock' = [lock EXCEPT !.readers = @ \ {t}]
    /\ UNCHANGED <<matcher, now>>
    /\ HostUnchanged

\* MatcherWrapper::stats under the read guard
StatsRead(t) ==
    /\ calls[t].pc = "locked"
    /\ calls[t].op = "stats"
    /\ calls' = [calls EXCEPT ![t] =
          Return(@, IF matcher = None THEN Err("runtime_error", "Matcher not loaded")
                    ELSE Ok(StatsOf(matcher[1])))]
    /\ lock' = [lock EXCEPT !.readers = @ \ {t}]
    /\ UNCHANGED <<matcher, now>>
    /\ HostUnchanged

\* MatcherWrapper::healthcheck under the read guard
Healthcheck(t) ==
    /\ calls[t].pc = "locked"
    /\ calls[t].op = "healthcheck"
    /\ calls' = [calls EXCEPT ![t] =
          Return(@, IF matcher = None THEN Err("runtime_error", "Matcher not loaded")
                    ELSE Ok(TRUE))]
    /\ lock' = [lock EXCEPT !.readers = @ \ {t}]
    /\ UNCHANGED <<matcher, now>>
    /\ HostUnchanged

\* MatcherWrapper::load, the Matcher::load part: no lock is held; a failure
\* returns the error
LoadFiles(t) ==
    /\ calls[t].pc = "open"
    /\ LET m == HostMatcherLoad(calls[t].args, now + 1)
       IN IF m = None
          THEN /\ calls' = [calls EXCEPT ![t] =
                               Return(@, Err("runtime_error", "Failed to load matcher"))]
               /\ now' = now
          ELSE /\ calls' = [calls EXCEPT ![t].pc = "write", ![t].loaded = m]
               /\ now' = now + 1
    /\ UNCHANGED <<matcher, lock>>
    /\ HostUnchanged

\* self.matcher.write() finds the lock taken: the thread queues
WriteWait(t) ==
    /\ calls[t].pc = "write"
    /\ ~CanWrite(lock)
    /\ t \notin lock.waiting
    /\ lock' = [lock EXCEPT !.waiting = @ \cup {t}]
    /\ UNCHANGED <<matcher, now, calls>>
    /\ HostUnchanged

\* self.matcher.write() is granted
WriteLock(t) ==
    /\ calls[t].pc = "write"
    /\ CanWrite(lock)
    /\ lock' = [lock EXCEPT !.writer = Some(t), !.waiting = @ \ {t}]
    /\ calls' = [calls EXCEPT ![t].pc = "swap"]
    /\ UNCHANGED <<matcher, now>>
    /\ HostUnchanged

\* *guard = Some(Arc::new(matcher)); the write guard drops at the return
Install(t) ==
    /\ calls[t].pc = "swap"
    /\ matcher' = calls[t].loaded
    /\ lock' = [lock EXCEPT !.writer = None]
    /\ calls' = [u \in Threads |->
          IF u = t THEN Return([calls[t] EXCEPT !.during = @ \cup {matcher'}], Ok(TRUE))
          ELSE IF calls[u].pc \in {"idle", "done"} THEN calls[u]
          ELSE [calls[u] EXCEPT !.during = @ \cup {matcher'}]]
    /\ UNCHANGED now
    /\ HostUnchanged

\* the host thread takes the returned value
TakeResult(t) ==
    /\ calls[t].pc = "done"
    /\ calls' = [calls EXCEPT ![t] = IdleCall]
    /\ UNCHANGED <<matcher, now, lock>>
    /\ HostUnchanged

\* the steps a thread takes inside a call
ThreadStep(t) ==
    \/ ReadLock(t)
    \/ MatchScan(t)
    \/ MatchResolve(t)
    \/ StatsRead(t)
    \/ Healthcheck(t)
    \/ LoadFiles(t)
    \/ WriteWait(t)
    \/ WriteLock(t)
    \/ Install(t)

NextHost ==
    \E t \in Threads :
        \/ CallReader(t)
        \/ CallLoad(t)
        \/ ThreadStep(t)
        \/ TakeResult(t)

SpecHost == InitHost /\ [][NextHost]_vars

\* every thread inside a call keeps taking steps; the lock is fair, so a
\* queued writer is served while readers that came later wait
SpecHostFair == SpecHost /\ \A t \in Threads : WF_vars(ThreadStep(t))

\* ---------------------------------------------------------------- payload stream

MaxRecords == 2    \* most payloads written to one stream

\* a direct call of a library function returned `result`
LibReturn(op, a, result) == [op |-> op, args |-> a, result |-> result]

\* a Payload as the codec handles it: phrase_id and count are u32 values, the
\* f32 salience is given by its bit pattern (f32::to_bits), n is a byte
PayloadBits(phrase_id, salience, count, n) ==
    [phrase_id |-> phrase_id, salience |-> salience, count |-> count, n |-> n]

\* f32::to_le_bytes and f32::from_le_bytes move the bit pattern unchanged
f32_to_le_bytes(bits) == to_le_bytes(bits)
f32_from_le_bytes(b) == from_le_bytes(b)

\* the payload of test_payload_roundtrip (2.13f32 is 0x400851EC), a payload of
\* extreme values with a NaN salience (0x7FC00001), the zero payload, and one
\* whose bytes all differ (salience -0.0)
PayloadChoices ==
    { PayloadBits(Tok(12345), U32(16392, 20972), Tok(314), 2),
      PayloadBits(U32Max, U32(32704, 1), U32Max, 255),
      PayloadBits(U32Zero, U32Zero, U32Zero, 0),
      PayloadBits(U32(1, 256), U32(32768, 0), U32(258, 772), 1) }

\* Payload::write_to: the 17 bytes the five write_all calls append
write_to(p) ==
    to_le_bytes(p.phrase_id) \o f32_to_le_bytes(p.salience) \o to_le_bytes(p.count)
        \o <<0, 0, 0, 0>> \o <<p.n>>

\* a position of the stream at which the underlying read fails
Fault == -1

\* Read::read_exact(&mut buf) for a buffer of n bytes: the bytes, or
\* UnexpectedEof when the reader ends first, or the reader's own error
read_exact(reader, n) ==
    LET avail == IF Len(reader) < n THEN Len(reader) ELSE n
    IN IF \E k \in 1..avail : reader[k] = Fault THEN Err("io_error", "Other")
       ELSE IF Len(reader) < n THEN Err("io_error", "UnexpectedEof")
       ELSE Ok(SubSeq(reader, 1, n))

\* a read_from that takes n from the byte after count
read_from_packed(reader) ==
    LET r == read_exact(reader, 17)
    IN IF r.kind # "ok" THEN r
       ELSE LET buf == r.value
            IN Ok(PayloadBits(from_le_bytes(SubSeq(buf, 1, 4)),
                              f32_from_le_bytes(SubSeq(buf, 5, 8)),
                              from_le_bytes(SubSeq(buf, 9, 12)),
                              buf[13]))

\* Payload::read_from: buf[0..4], buf[4..8], buf[8..12] and buf[16]
read_from(reader) ==
    LET r == read_exact(reader, 17)
    IN IF r.kind # "ok" THEN r
       ELSE LET buf == r.value
            IN Ok(PayloadBits(from_le_bytes(SubSeq(buf, 1, 4)),
                              f32_from_le_bytes(SubSeq(buf, 5, 8)),
                              from_le_bytes(SubSeq(buf, 9, 12)),
                              buf[17]))

\* the loop of load_payloads: push on Ok, break on UnexpectedEof, return any
\* other error
RECURSIVE LoadLoop(_, _)
LoadLoop(reader, payloads) ==
    LET r == read_from(reader)
    IN IF r.kind = "ok"
       THEN LoadLoop(SubSeq(reader, 18, Len(reader)), Append(payloads, r.value))
       ELSE IF r.value = "UnexpectedEof" THEN Ok(payloads)
       ELSE r

load_payloads(reader) == LoadLoop(reader, <<>>)

InitPayload ==
    /\ spans = None
    /\ loop = None
    /\ stream = <<>>
    /\ written = <<>>
    /\ given = None
    /\ ret = None
    /\ calls = <<>>
    /\ lock = Unlocked
    /\ matcher = None
    /\ now = 0
    /\ overflow_checks = FALSE
    /\ fs = None
    /\ input = None
    /\ build = None
    /\ hits = <<>>
    /\ vocab = {}
    /\ unresolved = <<>>
    /\ resolved = None

LibraryUnchanged ==
    UNCHANGED <<fs, matcher, now, hits, vocab, input, build, unresolved, resolved,
                overflow_checks, calls, lock, loop, spans>>

\* payload.write_to(&mut buf): the record is appended to the stream
WriteTo ==
    /\ Len(written) < MaxRecords
    /\ \A k \in DOMAIN stream : stream[k] # Fault
    /\ Len(stream) = 17 * Len(written)
    /\ \E p \in PayloadChoices :
          /\ stream' = stream \o write_to(p)
          /\ written' = Append(written, p)
          /\ ret' = Some(LibReturn("write_to", p, Ok(write_to(p))))
    /\ UNCHANGED given
    /\ LibraryUnchanged

\* what another writer of the format may leave in the four reserved bytes
ReservedChoices == { <<1, 0, 0, 0>>, <<255, 255, 255, 255>> }

\* another writer of the file fills the reserved bytes of record r
SetReserved ==
    /\ \E r \in 1..Len(written), v \in ReservedChoices :
          /\ 17 * r <= Len(stream)
          /\ \A k \in 13..16 : stream[17 * (r - 1) + k] = 0
          /\ stream' = [j \in 1..Len(stream) |->
                            IF j - 17 * (r - 1) \in 13..16 THEN v[j - 17 * (r - 1) - 12]
                            ELSE stream[j]]
    /\ ret' = None
    /\ UNCHANGED <<written, given, loop, spans>>
    /\ LibraryUnchanged

\* the stream ends early: the file was cut after its first k bytes
Truncate ==
    /\ \E k \in 0..(Len(stream) - 1) : stream' = SubSeq(stream, 1, k)
    /\ ret' = None
    /\ UNCHANGED <<written, given, loop, spans>>
    /\ LibraryUnchanged

\* the underlying reader fails after the first k bytes
ReadFails ==
    /\ \A j \in DOMAIN stream : stream[j] # Fault
    /\ \E k \in 0..(Len(stream) - 1) : stream' = Append(SubSeq(stream, 1, k), Fault)
    /\ ret' = None
    /\ UNCHANGED <<written, given, loop, spans>>
    /\ LibraryUnchanged

\* Payload::read_from(&mut cursor) on a fresh cursor over the stream
ReadFrom ==
    /\ ret' = Some(LibReturn("read_from", stream, read_from(stream)))
    /\ UNCHANGED <<stream, written, given, loop, spans>>
    /\ LibraryUnchanged

\* load_payloads(reader) on a fresh reader over the stream
LoadPayloads ==
    /\ ret' = Some(LibReturn("load_payloads", stream, load_payloads(stream)))
    /\ UNCHANGED <<stream, written, given, loop, spans>>
    /\ LibraryUnchanged

NextPayload ==
    \/ WriteTo
    \/ SetReserved
    \/ Truncate
    \/ ReadFails
    \/ ReadFrom
    \/ LoadPayloads

SpecPayload == InitPayload /\ [][NextPayload]_vars

\* ---------------------------------------------------------------- encoding calls

\* token ids whose four bytes differ in one place each, one of them equal to
\* a separator
EncodeTokenIds == { Tok(1), Tok(256), U32(1, 0) }

EncodeSeparators == { FixtureSeparator, Tok(1) }

EncodeArgs(tokens, separator) == [tokens |-> tokens, separator |-> separator]

\* two token sequences and the separator both are encoded with
InitEncode ==
    /\ spans = None
    /\ loop = None
    /\ given \in { Some([patterns |-> <<a, b>>, separator |-> sep]) :
                      a \in TokenVectors(EncodeTokenIds), b \in TokenVectors(EncodeTokenIds),
                      sep \in EncodeSeparators }
    /\ ret = None
    /\ stream = <<>>
    /\ written = <<>>
    /\ calls = <<>>
    /\ lock = Unlocked
    /\ matcher = None
    /\ now = 0
    /\ overflow_checks = FALSE
    /\ fs = None
    /\ input = None
    /\ build = None
    /\ hits = <<>>
    /\ vocab = {}
    /\ unresolved = <<>>
    /\ resolved = None

\* the builder encodes one of the sequences: encode_tokens(tokens, separator)
EncodeTokensCall ==
    /\ \E i \in DOMAIN given[1].patterns :
          LET a == EncodeArgs(given[1].patterns[i], given[1].separator)
          IN ret' = Some(LibReturn("encode_tokens", a, encode_tokens(a.tokens, a.separator)))
    /\ UNCHANGED <<stream, written, given, loop, spans>>
    /\ LibraryUnchanged

\* the matcher encodes one of the sequences in match_tokens, which returns
\* before the loop when token_ids is empty
MatcherEncodeCall ==
    /\ \E i \in DOMAIN given[1].patterns :
          LET a == EncodeArgs(given[1].patterns[i], given[1].separator)
          IN /\ a.tokens # <<>>
             /\ ret' = Some(LibReturn("extend_bytes", a,
                                      extend_bytes(<<>>, a.tokens, 1, a.separator)))
    /\ UNCHANGED <<stream, written, given, loop, spans>>
    /\ LibraryUnchanged

NextEncode ==
    \/ EncodeTokensCall
    \/ MatcherEncodeCall

SpecEncode == InitEncode /\ [][NextEncode]_vars

\* ---------------------------------------------------------------- manifest calls

\* a validate_compatible that also compares the version
validate_compatible_versioned(self, other) ==
    IF self.version # other.version
    THEN Err("Invalid", <<"Version mismatch", self.version, other.version>>)
    ELSE IF self.tokenizer # other.tokenizer
    THEN Err("Invalid", <<"Tokenizer mismatch", self.tokenizer, other.tokenizer>>)
    ELSE IF self.separator_id # other.separator_id
    THEN Err("Invalid", <<"Separator ID mismatch", self.separator_id, other.separator_id>>)
    ELSE Ok(<<>>)

\* Manifest::validate_compatible; the message names the expected and the
\* found value
validate_compatible(self, other) ==
    IF self.tokenizer # other.tokenizer
    THEN Err("Invalid", <<"Tokenizer mismatch", self.tokenizer, other.tokenizer>>)
    ELSE IF self.separator_id # other.separator_id
    THEN Err("Invalid", <<"Separator ID mismatch", self.separator_id, other.separator_id>>)
    ELSE Ok(<<>>)

ManifestVersions == { "pk-2025-09-25-01", "pk-2025-10-01-01" }

ManifestChoices ==
    { Manifest(v, t, n, sep) :
        v \in ManifestVersions, t \in {"scientist-v1", "whitespace-v1"},
        n \in {1, 2}, sep \in {FixtureSeparator, Tok(1)} }

\* two loaded manifests
InitManifest ==
    /\ spans = None
    /\ loop = None
    /\ given \in { Some(<<a, b>>) : a \in ManifestChoices, b \in ManifestChoices }
    /\ ret = None
    /\ stream = <<>>
    /\ written = <<>>
    /\ calls = <<>>
    /\ lock = Unlocked
    /\ matcher = None
    /\ now = 0
    /\ overflow_checks = FALSE
    /\ fs = None
    /\ input = None
    /\ build = None
    /\ hits = <<>>
    /\ vocab = {}
    /\ unresolved = <<>>
    /\ resolved = None

\* a.validate_compatible(&b), or b.validate_compatible(&a)
ValidateCompatibleCall ==
    /\ \E pair \in { given[1], <<given[1][2], given[1][1]>> } :
          ret' = Some(LibReturn("validate_compatible", pair,
                                validate_compatible(pair[1], pair[2])))
    /\ UNCHANGED <<stream, written, given, loop, spans>>
    /\ LibraryUnchanged

NextManifest == ValidateCompatibleCall

SpecManifest == InitManifest /\ [][NextManifest]_vars

\* ---------------------------------------------------------------- matcher tests

\* create_test_artifacts: the patterns [1,2] and [2,3], the payloads
\* (100, 1.5, 50, 2) and (200, 2.0, 100, 2), separator 4294967294
TestFiles ==
    Artifacts(<< <<Tok(1), Tok(2)>>, <<Tok(2), Tok(3)>> >>,
              << Payload(100, 15, 50, 2), Payload(200, 20, 100, 2) >>,
              2, FixtureSeparator, {Tok(1), Tok(2), Tok(3), Tok(4)})

\* the token_ids of test_matcher_match_tokens
TestTokens == <<Tok(1), Tok(2), Tok(3), Tok(4)>>

\* the test's cap
TestCap == 10

\* the test's token_ids and every window of them
TestQueries ==
    { SubSeq(TestTokens, a, b) : a \in 1..(Len(TestTokens) + 1), b \in 0..Len(TestTokens) }

InitTest ==
    /\ spans = None
    /\ loop = None
    /\ fs = Some(TestFiles)
    /\ input = None
    /\ build = None
    /\ matcher = None
    /\ now = 0
    /\ ret = None
    /\ hits = <<>>
    /\ vocab = {}
    /\ unresolved = <<>>
    /\ resolved = None
    /\ overflow_checks \in BOOLEAN
    /\ calls = <<>>
    /\ lock = Unlocked
    /\ stream = <<>>
    /\ written = <<>>
    /\ given = None

\* matcher.match_tokens(&token_ids, policy, max) as the test calls it
TestMatchTokens ==
    /\ matcher # None
    /\ ret = None
    /\ \E token_ids \in TestQueries, policy \in Policies, max \in (0..MaxCap) \cup {TestCap} :
          MatchTokensCall(token_ids, policy, max)

NextTest ==
    \/ Load
    \/ TestMatchTokens
    \/ MatchTokensAgain
    \/ Release

SpecTest == InitTest /\ [][NextTest]_vars

\* ---------------------------------------------------------------- salience calls

\* payloads of several saliences (in tenths) and counts, among them the one
\* of test_salience_score (2.0, 99) and counts of u32::MAX
ScorePayloads ==
    { Payload(1, sal, c, 2) : sal \in {5, 10, 20, 30}, c \in {0, 1, 2, 99, 100, 150, 200} }
        \cup { [Payload(1, sal, 0, 2) EXCEPT !.count = U32Max] : sal \in {5, 10, 20, 30} }

InitScore ==
    /\ spans = None
    /\ loop = None
    /\ given \in { Some(p) : p \in ScorePayloads }
    /\ overflow_checks \in BOOLEAN
    /\ ret = None
    /\ stream = <<>>
    /\ written = <<>>
    /\ calls = <<>>
    /\ lock = Unlocked
    /\ matcher = None
    /\ now = 0
    /\ fs = None
    /\ input = None
    /\ build = None
    /\ hits = <<>>
    /\ vocab = {}
    /\ unresolved = <<>>
    /\ resolved = None

\* payload.salience_score(): the call panics at count + 1 where overflow
\* checks are on; otherwise it returns the score, given here with the value
\* count + 1 took
SalienceScoreCall ==
    /\ LET p == given[1]
       IN ret' = Some(LibReturn("salience_score", p,
                    IF overflow_checks /\ ScoreOverflows(p)
                    THEN Err("panic", "attempt to add with overflow")
                    ELSE Ok([count_plus_one |-> wrapping_add_one(p.count),
                             score |-> salience_score(p)])))
    /\ UNCHANGED <<stream, written, given, loop, spans>>
    /\ LibraryUnchanged

NextScore == SalienceScoreCall

SpecScore == InitScore /\ [][NextScore]_vars

\* ---------------------------------------------------------------- salience loop

\* resolve_salience_max, lines 110-124: the best match of the group at i
SalienceMaxBest(matches, i) ==
    LET NotOverlapsFirst == [k \in DOMAIN matches |-> ~overlaps(matches[k], matches[i])]
        j == FirstFrom(NotOverlapsFirst, i + 1)
    IN MaxByLast(matches, i, j - 1, [k \in DOMAIN matches |-> MatchScore(matches[k])])

\* a loop that continues at the first match that starts at or after best.start
SalienceMaxNextFromStart(matches, i) ==
    LET best == SalienceMaxBest(matches, i)
    IN FirstFrom([k \in DOMAIN matches |-> matches[k].start >= best.start], i)

\* resolve_salience_max, lines 127-131: the index the outer loop continues at
SalienceMaxNext(matches, i) ==
    LET best == SalienceMaxBest(matches, i)
    IN FirstFrom([k \in DOMAIN matches |-> matches[k].start >= best.end], i)

\* the lists resolve_overlaps hands to resolve_salience_max: sorted by start
SortedMatchLists ==
    { l \in UNION { [1..n -> { m \in MatchChoices : m.end <= MaxEnd }] : n \in 0..MaxMatches } :
        \A k \in 1..(Len(l) - 1) : l[k].start <= l[k + 1].start }

\* resolve_salience_max entered: result empty, i at the first match
InitSalience ==
    /\ spans = None
    /\ loop \in { Some([matches |-> l, i |-> 1, result |-> <<>>]) : l \in SortedMatchLists }
    /\ unresolved = <<>>
    /\ resolved = None
    /\ fs = None
    /\ input = None
    /\ build = None
    /\ matcher = None
    /\ now = 0
    /\ ret = None
    /\ hits = <<>>
    /\ vocab = {}
    /\ overflow_checks = FALSE
    /\ calls = <<>>
    /\ lock = Unlocked
    /\ stream = <<>>
    /\ written = <<>>
    /\ given = None

\* one iteration of the outer while loop
SalienceMaxIterate ==
    /\ loop # None
    /\ loop[1].i <= Len(loop[1].matches)
    /\ loop' = Some([loop[1] EXCEPT
                       !.result = Append(@, SalienceMaxBest(loop[1].matches, loop[1].i)),
                       !.i = SalienceMaxNext(loop[1].matches, loop[1].i)])
    /\ UNCHANGED <<fs, matcher, now, ret, hits, vocab, input, build, unresolved, resolved,
                   overflow_checks, calls, lock, stream, written, given, spans>>

\* the loop condition fails and the function returns result
SalienceMaxReturn ==
    /\ loop # None
    /\ loop[1].i > Len(loop[1].matches)
    /\ unresolved' = loop[1].matches
    /\ resolved' = Some([policy |-> "salience_max", value |-> loop[1].result])
    /\ loop' = None
    /\ UNCHANGED <<fs, matcher, now, ret, hits, vocab, input, build,
                   overflow_checks, calls, lock, stream, written, given, spans>>

NextSalience == SalienceMaxIterate \/ SalienceMaxReturn

\* the thread that runs the function keeps running
SpecSalienceFair == InitSalience /\ [][NextSalience]_vars /\ WF_vars(NextSalience)

\* ---------------------------------------------------------------- tagger

\* phrasekit_tag's own Match (lines 157-162)
TagMatch(start, end, phrase_id) == [start |-> start, end |-> end, phrase_id |-> phrase_id]

\* the filter_map of phrasekit_tag.rs lines 164-177
RECURSIVE TagFilterMapHits(_, _)
TagFilterMapHits(payloads, raw) ==
    IF raw = <<>> THEN <<>>
    ELSE LET h == Head(raw)
             pattern_id == h.value
             start_token == h.start \div 8
             end_token == (h.end + 7) \div 8
         IN (IF pattern_id + 1 \in DOMAIN payloads
             THEN <<TagMatch(start_token, end_token, payloads[pattern_id + 1].phrase_id)>>
             ELSE <<>>)
            \o TagFilterMapHits(payloads, Tail(raw))

\* Vec::sort_by_key(|m| (m.start, Reverse(m.end))): a stable sort
RECURSIVE InsertByStartLongest(_, _)
InsertByStartLongest(sorted, m) ==
    IF sorted = <<>> THEN <<m>>
    ELSE IF \/ Head(sorted).start < m.start
            \/ (Head(sorted).start = m.start /\ Head(sorted).end >= m.end)
         THEN <<Head(sorted)>> \o InsertByStartLongest(Tail(sorted), m)
         ELSE <<m>> \o sorted

RECURSIVE SortLongestFrom(_, _, _)
SortLongestFrom(matches, k, acc) ==
    IF k > Len(matches) THEN acc
    ELSE SortLongestFrom(matches, k + 1, InsertByStartLongest(acc, matches[k]))

sort_by_key_start_rev_end(matches) == SortLongestFrom(matches, 1, <<>>)

\* the loop of lines 182-190 and of lines 196-204: a match is pushed when it
\* starts at or after covered_end
RECURSIVE CoveredLoop(_, _, _, _)
CoveredLoop(matches, k, covered_end, resolved_spans) ==
    IF k > Len(matches) THEN resolved_spans
    ELSE IF matches[k].start >= covered_end
    THEN CoveredLoop(matches, k + 1, matches[k].end, Append(resolved_spans, matches[k]))
    ELSE CoveredLoop(matches, k + 1, covered_end, resolved_spans)

\* tag_corpus, lines 148-211, for one document: any other policy string
\* leaves the hits as the automaton reported them
tag_document(files, token_ids, policy, max_spans) ==
    LET bytes == extend_bytes(<<>>, token_ids, 1, files.manifest.separator_id)
        found == TagFilterMapHits(files.payloads, find_overlapping_iter(files.automaton, bytes))
        kept == CASE policy = "leftmost_longest" ->
                        CoveredLoop(sort_by_key_start_rev_end(found), 1, 0, <<>>)
                  [] policy = "leftmost_first" ->
                        CoveredLoop(sort_by_key_start(found), 1, 0, <<>>)
                  [] OTHER -> found
    IN truncate(kept, max_spans)

\* phrasekit_tag is run on the artifact files with the document and the
\* config (policy, max_spans) of the call the caller holds the result of
TagDocument ==
    /\ fs # None
    /\ ret # None
    /\ ret[1].op = "match_tokens"
    /\ spans = None
    /\ spans' = Some([args |-> ret[1].args,
                      value |-> tag_document(fs[1], ret[1].args.token_ids,
                                             ret[1].args.policy, ret[1].args.max)])
    /\ UNCHANGED <<fs, matcher, now, ret, hits, vocab, input, build, unresolved, resolved,
                   overflow_checks, calls, lock, stream, written, given, loop>>

\* the caller drops the result and the tagger's output
TagRelease ==
    /\ ret # None
    /\ ret' = None
    /\ hits' = <<>>
    /\ spans' = None
    /\ UNCHANGED <<fs, matcher, now, vocab, input, build, unresolved, resolved,
                   overflow_checks, calls, lock, stream, written, given, loop>>

NextTag ==
    \/ Load
    \/ MatchTokens
    \/ TagDocument
    \/ TagRelease

SpecTag == Init /\ [][NextTag]_vars

\* ---------------------------------------------------------------- properties

Returned == ret # None /\ ret[1].op = "match_tokens"

Args == ret[1].args

Result == ret[1].value

\* the matches of the last call before overlap resolution (matcher.rs line 96)
RawMatches == FilterMapHits(matcher[1].payloads, hits)

Overlap(a, b) == a.start < b.end /\ b.start < a.end

PatternTokens(p) ==
    [i \in 1..(Len(p) \div 8) |-> from_le_bytes(SubSeq(p, 8 * (i - 1) + 1, 8 * (i - 1) + 4))]

\* the separator is non-zero and is no token of any pattern
SeparatorReserved(m) ==
    /\ m.manifest.separator_id # U32Zero
    /\ \A i \in DOMAIN m.automaton :
          \A k \in DOMAIN PatternTokens(m.automaton[i]) :
              PatternTokens(m.automaton[i])[k] # m.manifest.separator_id

\* C2: with a non-zero separator that is no token of any pattern, every raw
\* automaton hit starts and ends at a multiple of 8 bytes and spans as many
\* 8-byte groups as its pattern has tokens
C2_Alignment ==
    (Returned /\ SeparatorReserved(matcher[1])) =>
        \A k \in DOMAIN hits :
            /\ hits[k].start % 8 = 0
            /\ hits[k].end % 8 = 0
            /\ (hits[k].end - hits[k].start) \div 8
                  = Len(PatternTokens(matcher[1].automaton[hits[k].value + 1]))

\* C3: every match returned on artifacts the builder produced satisfies
\* 0 <= start < end <= |token_ids| and end - start == payload.n
C3_MatchBounds ==
    (Returned /\ build # None /\ fs # None /\ matcher[1].automaton = fs[1].automaton) =>
        \A k \in DOMAIN Result :
            /\ 0 <= Result[k].start
            /\ Result[k].start < Result[k].end
            /\ Result[k].end <= Len(Args.token_ids)
            /\ Result[k].end - Result[k].start = Result[k].payload.n

Prefix(v, n) == SubSeq(v, 1, IF Len(v) < n THEN Len(v) ELSE n)

\* what the last call returns when its cap is max2: the automaton's hits do
\* not depend on the cap
ResultFor(max2) ==
    IF Args.token_ids = <<>> THEN <<>>
    ELSE ResolveHits(matcher[1], hits, Args.policy, max2)

\* C4: match_tokens returns at most max matches (none for max == 0), and for
\* every max' >= max the result equals the first max elements of the result
\* for max'
C4_Truncation ==
    Returned =>
        /\ Len(Result) <= Args.max
        /\ \A max2 \in Args.max..(MaxCap + MaxTokens) :
              Result = Prefix(ResultFor(max2), Args.max)

\* a call whose cap cut the resolved list
C4_Witness ==
    /\ Returned
    /\ Args.max >= 1
    /\ Len(Result) = Args.max
    /\ Len(ResultFor(Args.max + 1)) > Args.max

\* the matcher in use was loaded from the fixture artifacts and the call is
\* the fixture's query [100, 101, 102] under the given policy
FixtureQuery(policy) ==
    /\ Returned
    /\ matcher[1].automaton = FixtureFiles.automaton
    /\ matcher[1].payloads = FixtureFiles.payloads
    /\ Args.token_ids = <<Tok(100), Tok(101), Tok(102)>>
    /\ Args.policy = policy
    /\ Args.max >= 1

\* the indices of S whose start is at or after the cursor
AtOrAfter(S, cursor) == { k \in DOMAIN S : S[k].start >= cursor }

\* leftmost_longest as stated: of the matches sharing the smallest start that
\* is >= cursor, the greatest end, then the greatest pattern_index
RECURSIVE LongestByIndex(_, _)
LongestByIndex(S, cursor) ==
    IF AtOrAfter(S, cursor) = {} THEN <<>>
    ELSE LET cand == AtOrAfter(S, cursor)
             s == CHOOSE x \in { S[k].start : k \in cand } :
                      \A k \in cand : x <= S[k].start
             group == { k \in cand : S[k].start = s }
             pick == CHOOSE k \in group : \A j \in group :
                         \/ S[j].end < S[k].end
                         \/ S[j].end = S[k].end /\ S[j].pattern_id <= S[k].pattern_id
         IN <<S[pick]>> \o LongestByIndex(S, S[pick].end)

\* C5: leftmost_longest outputs, of the matches sharing the smallest start
\* >= cursor, the one with the greatest end, ties broken by the greatest
\* pattern_index, and moves the cursor to its end; the fixture's query
\* [100,101,102] yields exactly {start 0, end 3, phrase_id 300}
C5_LeftmostLongest ==
    /\ (Returned /\ Args.policy = "leftmost_longest") =>
           Result = Prefix(LongestByIndex(RawMatches, 0), Args.max)
    /\ FixtureQuery("leftmost_longest") =>
           /\ Len(Result) = 1
           /\ Result[1].start = 0
           /\ Result[1].end = 3
           /\ Result[1].payload.phrase_id = 300

\* the position a stable sort by start gives to element i of raw
StableRank(raw, i) ==
    1 + Cardinality({ j \in DOMAIN raw : raw[j].start < raw[i].start })
      + Cardinality({ j \in 1..(i - 1) : raw[j].start = raw[i].start })

StableSorted(raw) ==
    [k \in DOMAIN raw |-> raw[CHOOSE i \in DOMAIN raw : StableRank(raw, i) = k]]

\* the cursor when the scan reaches element k: the end of the last accepted
\* match before it, 0 if there is none
RECURSIVE CursorBefore(_, _)
CursorBefore(S, k) ==
    IF k = 1 THEN 0
    ELSE IF S[k - 1].start >= CursorBefore(S, k - 1) THEN S[k - 1].end
         ELSE CursorBefore(S, k - 1)

\* the elements of S at the indices in idx, in index order
SubSeqAt(S, idx) ==
    [n \in 1..Cardinality(idx) |->
        S[CHOOSE k \in idx : Cardinality({ j \in idx : j < k }) = n - 1]]

FirstScan(S) == SubSeqAt(S, { k \in DOMAIN S : S[k].start >= CursorBefore(S, k) })

\* C6: leftmost_first scans the matches in stable sort-by-start order
\* (equal starts keep the automaton's order), accepts a match exactly when
\* its start >= cursor and then sets the cursor to its end; the fixture's
\* query [100,101,102] yields the single match {0, 2, phrase_id 100}
C6_LeftmostFirst ==
    /\ (Returned /\ Args.policy = "leftmost_first") =>
           Result = Prefix(FirstScan(StableSorted(RawMatches)), Args.max)
    /\ FixtureQuery("leftmost_first") =>
           /\ Len(Result) = 1
           /\ Result[1].start = 0
           /\ Result[1].end = 2
           /\ Result[1].payload.phrase_id = 100

\* the fixture's query under leftmost_first: P0 and P2 both start at 0 and
\* the automaton reports P0 first
C6_Witness ==
    /\ FixtureQuery("leftmost_first")
    /\ Len(RawMatches) = 2
    /\ RawMatches[1].start = RawMatches[2].start
    /\ RawMatches[1].pattern_id = 0
    /\ RawMatches[2].pattern_id = 2
    /\ Result = <<RawMatches[1]>>

\* every hit of the last call lies on token boundaries
HitsAligned == \A k \in DOMAIN hits : hits[k].start % 8 = 0 /\ hits[k].end % 8 = 0

\* the last index of the chain that starts at i: each match overlaps the next
RECURSIVE ChainEnd(_, _)
ChainEnd(S, i) ==
    IF i < Len(S) /\ Overlap(S[i], S[i + 1]) THEN ChainEnd(S, i + 1) ELSE i

\* the first index from i on whose match starts at or after cursor
RECURSIVE NextAtOrAfter(_, _, _)
NextAtOrAfter(S, i, cursor) ==
    IF i > Len(S) \/ S[i].start >= cursor THEN i ELSE NextAtOrAfter(S, i + 1, cursor)

\* salience_max over chain components, whatever the choice among equal scores
RECURSIVE ChainOutcomes(_, _)
ChainOutcomes(S, i) ==
    IF i > Len(S) THEN { <<>> }
    ELSE LET comp == i..ChainEnd(S, i)
             bests == { k \in comp : \A l \in comp :
                           salience_score(S[l].payload) <= salience_score(S[k].payload) }
         IN UNION { { <<S[k]>> \o rest :
                        rest \in ChainOutcomes(S, NextAtOrAfter(S, i, S[k].end)) } :
                    k \in bests }

\* C7: salience_max groups consecutive matches into a chain component (each
\* match overlaps the next), outputs the member with the greatest
\* salience*ln(count+1), skips every match with start < chosen.end and
\* starts the next component at the first match with start >= chosen.end
\* (stated for the calls whose hits all lie on token boundaries)
C7_SalienceChain ==
    (Returned /\ Args.policy = "salience_max" /\ HitsAligned) =>
        \E out \in ChainOutcomes(StableSorted(RawMatches), 1) :
            Result = Prefix(out, Args.max)

\* a beats b: greater score, then greater n, then smaller start, then
\* smaller pattern_index
Beats(a, b) ==
    LET sa == salience_score(a.payload)
        sb == salience_score(b.payload)
    IN \/ sa > sb
       \/ sa = sb /\ a.payload.n > b.payload.n
       \/ sa = sb /\ a.payload.n = b.payload.n /\ a.start < b.start
       \/ sa = sb /\ a.payload.n = b.payload.n /\ a.start = b.start
             /\ a.pattern_id < b.pattern_id

\* the last index of the component the code forms at i: the matches that
\* overlap the component's first match
RECURSIVE ComponentEnd(_, _, _)
ComponentEnd(S, i, j) ==
    IF j < Len(S) /\ Overlap(S[j + 1], S[i]) THEN ComponentEnd(S, i, j + 1) ELSE j

\* salience_max with the stated order of preference among equal scores
RECURSIVE SalienceByPreference(_, _)
SalienceByPreference(S, i) ==
    IF i > Len(S) THEN <<>>
    ELSE LET comp == i..ComponentEnd(S, i, i)
             best == CHOOSE k \in comp : \A l \in comp : ~Beats(S[l], S[k])
         IN <<S[best]>> \o SalienceByPreference(S, NextAtOrAfter(S, i, S[best].end))

\* C8: when matches of a component share the greatest score, salience_max
\* chooses the one with the greater n, then the smaller start, then the
\* smaller pattern_index (stated for the calls whose hits all lie on token
\* boundaries)
C8_SalienceTieBreak ==
    (Returned /\ Args.policy = "salience_max" /\ HitsAligned) =>
        Result = Prefix(SalienceByPreference(StableSorted(RawMatches), 1), Args.max)

\* C9: for every policy and every list of matches with start < end,
\* resolve_overlaps returns matches with strictly increasing start, each of
\* which is one of the input matches
C9_AscendingSubset ==
    resolved # None =>
        LET out == resolved[1].value
        IN /\ \A k \in 1..(Len(out) - 1) : out[k].start < out[k + 1].start
           /\ \A k \in DOMAIN out : \E i \in DOMAIN unresolved : out[k] = unresolved[i]

\* an unsorted list with an overlapping pair, resolved to two matches
C9_Witness ==
    /\ resolved # None
    /\ Len(resolved[1].value) >= 2
    /\ \E i, j \in DOMAIN unresolved :
          i < j /\ unresolved[i].start > unresolved[j].start
    /\ \E i, j \in DOMAIN unresolved :
          i # j /\ Overlap(unresolved[i], unresolved[j])

C13_CountsAgree ==
    matcher # None =>
        /\ Len(matcher[1].payloads) = matcher[1].manifest.num_patterns
        /\ Len(matcher[1].automaton) = matcher[1].manifest.num_patterns
        /\ \A i \in DOMAIN matcher[1].automaton : i - 1 < Len(matcher[1].payloads)

\* C20: match_tokens never panics; a raw hit whose value is no index into the
\* payload table is dropped, and every returned match carries the payload
\* stored at index pattern_id
C20_NeverFails ==
    /\ (ret # None) => ret[1].op # "panic"
    /\ Returned =>
          \A k \in DOMAIN Result :
              /\ Result[k].pattern_id < Len(matcher[1].payloads)
              /\ Result[k].payload = matcher[1].payloads[Result[k].pattern_id + 1]
              /\ \E h \in DOMAIN hits : hits[h].value = Result[k].pattern_id

\* the artifact sets of HostLoadArgs that are good: readable, a non-zero
\* separator, as many payload records as the manifest says
GoodLoadArg(a) ==
    /\ a.io = "ok"
    /\ a.files.manifest.separator_id # U32Zero
    /\ Len(a.files.payloads) = a.files.manifest.num_patterns

\* the fully loaded matcher instances
FullInstances ==
    { [automaton |-> a.files.automaton, payloads |-> a.files.payloads,
       manifest |-> a.files.manifest, loaded_at |-> k] :
        a \in { x \in HostLoadArgs : GoodLoadArg(x) }, k \in 1..MaxLoads }

\* what a match_tokens call returns when nothing runs beside it and the slot
\* holds `slot`
SequentialMatch(slot, a) ==
    IF slot = None THEN Err("runtime_error", "Matcher not loaded")
    ELSE IF a.policy \notin Policies THEN Err("arg_error", "Invalid policy")
    ELSE Ok(match_tokens(slot[1], a.token_ids, a.policy, a.max))

SameResult(r, e) == r.kind = e.kind /\ r.value = e.value

InCall(t) == calls[t].pc \notin {"idle", "done"}

Done(t, op) == calls[t].pc = "done" /\ calls[t].op = op

\* every finished match_tokens call returned what a sequential call on one
\* slot content of its lifetime returns
MatchLinearizable ==
    \A t \in DOMAIN calls :
        Done(t, "match_tokens") =>
            \E slot \in calls[t].during :
                /\ slot = None \/ slot[1] \in FullInstances
                /\ SameResult(calls[t].ret[1], SequentialMatch(slot, calls[t].args))

\* C11: with threads concurrently calling match_tokens, stats, healthcheck
\* and load on one wrapper, every match_tokens call returns what a sequential
\* call against one fully loaded instance (the one installed before or the
\* one installed after a concurrent load) returns, never a mix, and every
\* call eventually returns
C11_Concurrent ==
    /\ []MatchLinearizable
    /\ \A t \in Threads : InCall(t) ~> (calls[t].pc = "done")

\* a match_tokens call that returned matches while another thread's load
\* installed a new instance
C11_Witness ==
    \E t \in DOMAIN calls :
        /\ Done(t, "match_tokens")
        /\ calls[t].ret[1].kind = "ok"
        /\ calls[t].ret[1].value # <<>>
        /\ Cardinality(calls[t].during) >= 2

\* a load that the four stated causes make fail: unreadable files, a manifest
\* that is no JSON, separator_id == 0, a payload count other than num_patterns
MustFail(a) ==
    \/ a.io \in {"io_error", "json_error"}
    \/ a.files.manifest.separator_id = U32Zero
    \/ Len(a.files.payloads) # a.files.manifest.num_patterns

\* the slot is empty or holds one whole instance
SlotWhole == matcher = None \/ matcher[1] \in FullInstances

\* the step in which thread t's load leaves Matcher::load
LeavesMatcherLoad(t) == calls[t].pc = "open" /\ calls'[t].pc # "open"

\* C12: a load that fails (I/O failure, JSON parse failure, separator_id == 0,
\* payload count mismatch) returns an error and leaves the slot exactly as it
\* was: still empty, or still the previously loaded instance, never a
\* half-loaded one
C12_FailedLoad ==
    /\ []SlotWhole
    /\ [][\A t \in Threads :
            (LeavesMatcherLoad(t) /\ MustFail(calls[t].args)) =>
                /\ calls'[t].pc = "done"
                /\ calls'[t].ret # None
                /\ calls'[t].ret[1].kind = "runtime_error"
                /\ matcher' = matcher
                /\ lock' = lock]_vars

\* a failed load has returned its error while the slot holds an instance
C12_Witness ==
    /\ matcher # None
    /\ \E t \in DOMAIN calls :
          /\ Done(t, "load")
          /\ MustFail(calls[t].args)
          /\ calls[t].ret[1].kind = "runtime_error"

\* the step in which thread t's match_tokens passes the two checks of the
\* binding (lib.rs 38-43)
ChecksArguments(t) ==
    /\ calls[t].op = "match_tokens"
    /\ calls[t].pc = "locked"
    /\ calls'[t].pc # "locked"

\* a step of thread t inside a match_tokens call
MatchTokensStep(t) == calls[t].op = "match_tokens" /\ calls'[t].pc # calls[t].pc

C19_HealthcheckBoolean ==
    \A t \in DOMAIN calls :
        Done(t, "healthcheck") =>
            /\ calls[t].ret[1].kind = "ok"
            /\ calls[t].ret[1].value \in BOOLEAN
            /\ calls[t].ret[1].value = TRUE => \E slot \in calls[t].during : slot # None
            /\ calls[t].ret[1].value = FALSE => None \in calls[t].during

\* the stream the last call read has no failing position
CleanStream == \A k \in DOMAIN stream : stream[k] # Fault

LoadedPayloads == ret # None /\ ret[1].op = "load_payloads" /\ CleanStream

\* C14: load_payloads returns all records and succeeds when the source ends
\* exactly at a 17-byte record boundary, and returns a fatal format error when
\* the source ends inside a record (its length is no multiple of 17)
C14_PartialRecordFatal ==
    LoadedPayloads =>
        IF Len(stream) % 17 = 0
        THEN /\ ret[1].result.kind = "ok"
             /\ ret[1].result.value = SubSeq(written, 1, Len(stream) \div 17)
        ELSE ret[1].result.kind # "ok"

\* the number whose little-endian bytes are b[from], ..., b[from + 3], as the
\* two 16-bit halves of a u32
LittleEndianAt(b, from) == U32(b[from + 2] + 256 * b[from + 3], b[from] + 256 * b[from + 1])

Wrote == ret # None /\ ret[1].op = "write_to"

\* read_from was called on a stream whose first record is whole and readable
ReadWhole ==
    /\ ret # None
    /\ ret[1].op = "read_from"
    /\ Len(stream) >= 17
    /\ \A k \in 1..17 : stream[k] # Fault

\* C15: for every payload p, write_to emits exactly 17 bytes (phrase_id,
\* salience and count little-endian, 4 zero bytes, n), and read_from of those
\* bytes yields a payload equal to p in phrase_id, salience (bit for bit),
\* count and n, whatever the 4 reserved bytes hold
C15_RoundTrip ==
    /\ Wrote =>
          LET p == ret[1].args
              b == ret[1].result.value
          IN /\ Len(b) = 17
             /\ \A k \in 1..17 : b[k] \in 0..255
             /\ LittleEndianAt(b, 1) = p.phrase_id
             /\ LittleEndianAt(b, 5) = p.salience
             /\ LittleEndianAt(b, 9) = p.count
             /\ \A k \in 13..16 : b[k] = 0
             /\ b[17] = p.n
    /\ ReadWhole =>
          /\ ret[1].result.kind = "ok"
          /\ ret[1].result.value.phrase_id = written[1].phrase_id
          /\ ret[1].result.value.salience = written[1].salience
          /\ ret[1].result.value.count = written[1].count
          /\ ret[1].result.value.n = written[1].n

\* read_from returned the payload of extreme values from a record whose
\* reserved bytes are not all zero
C15_Witness ==
    /\ ReadWhole
    /\ \E k \in 13..16 : stream[k] # 0
    /\ written[1].phrase_id = U32Max
    /\ written[1].n = 255
    /\ ret[1].result.kind = "ok"
    /\ ret[1].result.value = written[1]

Encoded == ret # None /\ ret[1].op \in {"encode_tokens", "extend_bytes"}

\* C16: the encoding of a k-token sequence has length exactly 8 * k, two
\* distinct token-id sequences give different byte buffers for the same
\* separator, and the matcher's inline encoding produces the same bytes as
\* the builder's encode_tokens for the same tokens and separator
C16_Encoding ==
    Encoded =>
        LET a == ret[1].args
            b == ret[1].result
        IN /\ Len(b) = 8 * Len(a.tokens)
           /\ \A i \in DOMAIN given[1].patterns :
                 LET other == given[1].patterns[i]
                 IN other # a.tokens =>
                       /\ encode_tokens(other, a.separator) # b
                       /\ extend_bytes(<<>>, other, 1, a.separator) # b
           /\ ret[1].op = "extend_bytes" => b = encode_tokens(a.tokens, a.separator)
           /\ ret[1].op = "encode_tokens" => b = extend_bytes(<<>>, a.tokens, 1, a.separator)

\* the matcher encoded one of two different sequences of the same length,
\* one of whose tokens equals the separator
C16_Witness ==
    /\ Encoded
    /\ ret[1].op = "extend_bytes"
    /\ Len(ret[1].args.tokens) >= 2
    /\ given[1].patterns[1] # given[1].patterns[2]
    /\ Len(given[1].patterns[1]) = Len(given[1].patterns[2])
    /\ \E k \in DOMAIN ret[1].args.tokens : ret[1].args.tokens[k] = ret[1].args.separator

Validated == ret # None /\ ret[1].op = "validate_compatible"

\* C17: validate_compatible(a, b) succeeds exactly when a.tokenizer ==
\* b.tokenizer and a.separator_id == b.separator_id; a with a succeeds, a with
\* b succeeds iff b with a succeeds, and the version field does not matter
C17_Compatible ==
    Validated =>
        LET a == ret[1].args[1]
            b == ret[1].args[2]
            ok == ret[1].result.kind = "ok"
        IN /\ ok <=> (a.tokenizer = b.tokenizer /\ a.separator_id = b.separator_id)
           /\ a = b => ok
           /\ ok <=> (validate_compatible(b, a).kind = "ok")
           /\ \A v \in ManifestVersions :
                 ok <=> (validate_compatible([a EXCEPT !.version = v], b).kind = "ok")

\* two manifests of different versions and pattern counts were found
\* compatible
C17_Witness ==
    /\ Validated
    /\ ret[1].result.kind = "ok"
    /\ ret[1].args[1].version # ret[1].args[2].version
    /\ ret[1].args[1].num_patterns # ret[1].args[2].num_patterns

\* the last builder run succeeded and its artifact files are in place
Built == build # None /\ build[1].ok /\ fs # None

\* C21: in every artifact set the builder writes, separator_id is non-zero
\* and is no token id of any built pattern, whatever ids the vocabulary
\* assignment gives the tokens
C21_SeparatorRejected == Built => SeparatorReserved(fs[1])

\* pattern i and payload record i of the written files come from input line k
FromLine(i, k) ==
    LET line == input[1].lines[k]
    IN /\ ~IsGarbage(line)
       /\ Len(PatternTokens(fs[1].automaton[i])) = Len(line.tokens)
       /\ fs[1].payloads[i].phrase_id = line.phrase_id
       /\ fs[1].payloads[i].salience = line.salience
       /\ fs[1].payloads[i].count = Tok(line.count)

\* C22: the builder keeps the accepted phrases in input order: pattern i of
\* the automaton and record i of payloads.bin come from the i-th accepted
\* line, phrase_ids are pairwise distinct across the records, and
\* manifest.num_patterns equals the number of records and of patterns
C22_InputOrder ==
    Built =>
        /\ fs[1].manifest.num_patterns = Len(fs[1].payloads)
        /\ fs[1].manifest.num_patterns = Len(fs[1].automaton)
        /\ fs[1].manifest.num_patterns = build[1].stats.built
        /\ \A i, j \in DOMAIN fs[1].payloads :
              i # j => fs[1].payloads[i].phrase_id # fs[1].payloads[j].phrase_id
        /\ \E f \in [DOMAIN fs[1].payloads -> DOMAIN input[1].lines] :
              /\ \A i, j \in DOMAIN f : i < j => f[i] < f[j]
              /\ \A i \in DOMAIN f : FromLine(i, f[i])

\* a build of two phrases whose phrase_ids descend in the input
C22_Witness ==
    /\ Built
    /\ Len(fs[1].payloads) = 2
    /\ fs[1].payloads[1].phrase_id > fs[1].payloads[2].phrase_id

\* C23: for every phrase the builder accepts, the payload field n written to
\* payloads.bin equals the phrase's number of tokens and satisfies
\* 1 <= n <= 255
C23_LengthFitsU8 ==
    Built =>
        \A i \in DOMAIN fs[1].payloads :
            /\ fs[1].payloads[i].n = Len(PatternTokens(fs[1].automaton[i]))
            /\ 1 <= fs[1].payloads[i].n
            /\ fs[1].payloads[i].n <= 255

\* the phrase file holds phrases only, each with at least one token and its
\* own phrase_id, no threshold filters any of them, and the separator is
\* non-zero and none of the ids the vocabulary assigns
CleanPhrases ==
    LET lines == input[1].lines
        config == input[1].config
        tokens == UNION { {to_lowercase(lines[k].tokens[i]) : i \in DOMAIN lines[k].tokens} :
                            k \in DOMAIN lines }
    IN /\ lines # <<>>
       /\ \A k \in DOMAIN lines : ~IsGarbage(lines[k]) /\ lines[k].tokens # <<>>
       /\ \A k, l \in DOMAIN lines : k # l => lines[k].phrase_id # lines[l].phrase_id
       /\ config.min_count = None
       /\ config.salience_threshold = None
       /\ config.separator_id # U32Zero
       /\ \A n \in 1..Cardinality(tokens) : config.separator_id # Tok(n)

\* the token ids of patterns 1..n of the written automaton, one after the other
RECURSIVE Concatenation(_)
Concatenation(n) ==
    IF n = 0 THEN <<>>
    ELSE Concatenation(n - 1) \o PatternTokens(fs[1].automaton[n])

\* C24: for phrases with distinct phrase_ids that do not contain the
\* separator the build succeeds, the written artifacts load, and the raw hits
\* of the loaded matcher on the concatenation of the phrases' token ids
\* include every phrase at the token span where it was placed
C24_BuildThenMatch ==
    (build # None /\ CleanPhrases) =>
        /\ build[1].ok
        /\ fs # None
        /\ (ret # None /\ ret[1].op = "load") => ret[1].ok
        /\ (Returned /\ Args.token_ids = Concatenation(Len(fs[1].automaton))) =>
              \A i \in DOMAIN fs[1].automaton :
                  \E h \in DOMAIN hits :
                      /\ hits[h].value = i - 1
                      /\ hits[h].start = 8 * Len(Concatenation(i - 1))
                      /\ hits[h].end = 8 * Len(Concatenation(i))

Scored == ret # None /\ ret[1].op = "salience_score"

\* C25: for every u32 value of count, 2^32 - 1 included, the count + 1 that
\* salience_score computes does not overflow and is at least 1, so that the
\* multiplier ln(count + 1) is finite and non-negative
C25_CountPlusOne ==
    Scored =>
        /\ ret[1].result.kind = "ok"
        /\ ret[1].result.value.count_plus_one # U32Zero
        /\ ret[1].result.value.score # NegInfinity
        /\ ret[1].result.value.score >= 0

\* C26: with the two 2-token patterns [1,2] and [2,3] loaded,
\* match_tokens([1,2,3,4], leftmost_longest, 10) returns two matches, the
\* first with start 0 and end 2, the second with start 1 and end 3
C26_TestExpectation ==
    (Returned /\ Args = CallArgs(TestTokens, "leftmost_longest", TestCap)) =>
        /\ Len(Result) = 2
        /\ Result[1].start = 0
        /\ Result[1].end = 2
        /\ Result[2].start = 1
        /\ Result[2].end = 3

\* the phrases the last builder run accepted
Accepted == load_and_validate_phrases(input[1].lines, input[1].config).phrases

\* C27: the builder's counters partition its input: total_input is the sum of
\* filtered_low_count, filtered_low_salience, invalid_tokens,
\* duplicate_phrase_ids and built, and a phrase counted invalid (no tokens, or
\* an empty token string) is never among the built ones
C27_CountersPartition ==
    build # None =>
        /\ build[1].stats.total_input =
              build[1].stats.filtered_low_count + build[1].stats.filtered_low_salience
                + build[1].stats.invalid_tokens + build[1].stats.duplicate_phrase_ids
                + build[1].stats.built
        /\ \A i \in DOMAIN Accepted :
              Accepted[i].tokens # <<>> /\ EmptyTokens(Accepted[i].tokens) = 0

\* C28: for every policy and every list of matches with start < end, every
\* match resolve_overlaps drops overlaps at least one match it keeps
C28_Maximal ==
    resolved # None =>
        LET out == resolved[1].value
        IN \A i \in DOMAIN unresolved :
              \/ \E k \in DOMAIN out : out[k] = unresolved[i]
              \/ \E k \in DOMAIN out : Overlap(out[k], unresolved[i])

\* C29: resolve_salience_max terminates on every finite list of matches with
\* start < end: every iteration of its outer loop strictly increases i, and
\* the function returns
C29_Terminates ==
    /\ [][(loop # None /\ loop' # None) => loop'[1].i > loop[1].i]_vars
    /\ <>(loop = None)

\* the loop returned after two iterations over three matches: one iteration
\* passed a group of two
C29_Witness ==
    /\ loop = None
    /\ resolved # None
    /\ Len(unresolved) = 3
    /\ Len(resolved[1].value) = 2

\* the (start, end, phrase_id) sequence of a match_tokens result
SpanSequence(matches) ==
    [k \in DOMAIN matches |->
        TagMatch(matches[k].start, matches[k].end, matches[k].payload.phrase_id)]

Tagged == Returned /\ spans # None /\ spans[1].args = Args

\* C30: for the same artifacts, tokens, policy and cap, the spans
\* phrasekit_tag writes for a document are the (start, end, phrase_id)
\* sequence of the matches Matcher::match_tokens returns, under each of the
\* three policies, and the tagger's spans never overlap
C30_TaggerAgrees ==
    Tagged =>
        /\ spans[1].value = SpanSequence(Result)
        /\ \A i, j \in DOMAIN spans[1].value :
              i # j => ~Overlap(spans[1].value[i], spans[1].value[j])

====
